---- MODULE Spec2Model ----
(***************************************************************************)
(* SKY-SQL: a console tool over a flights database.  data.py is the query  *)
(* gateway (FlightData), main.py the menu loop, the lookups and the four   *)
(* delay aggregations (by airline, by hour, by route heatmap, route map).  *)
(* plotting.py holds the same four aggregations as functions of a results  *)
(* list; their loops are the same statements as main.py's.                 *)
(*                                                                         *)
(* Values read from SQLite are dynamically typed.  A field value is one of *)
(*   Null      - SQL NULL / Python None                                    *)
(*   Num(n)    - a Python int                                              *)
(*   Str(s)    - a Python str, s a sequence of one-character strings       *)
(***************************************************************************)
EXTENDS Integers, Sequences, FiniteSets, TLC

\* ------------------------------------------------------------------ bounds
\* Longest flights table of the general specification.
MaxFlights == 2
\* Longest flights table of the single-route specification SpecRoute.
MaxRouteFlights == 5
\* Longest flights table of the two-route specification SpecPair.
MaxPairFlights == 3

\* ----------------------------------------------------------- program values
Null == [t |-> "null", n |-> 0, s |-> <<>>]
Num(n) == [t |-> "num", n |-> n, s |-> <<>>]
Str(s) == [t |-> "str", n |-> 0, s |-> s]

\* Python truthiness of a field value: None, 0 and '' are falsy.
Truthy(v) ==
    CASE v.t = "null" -> FALSE
      [] v.t = "num" -> v.n # 0
      [] OTHER -> Len(v.s) > 0

DigitValue ==
    "0" :> 0 @@ "1" :> 1 @@ "2" :> 2 @@ "3" :> 3 @@ "4" :> 4 @@
    "5" :> 5 @@ "6" :> 6 @@ "7" :> 7 @@ "8" :> 8 @@ "9" :> 9

RECURSIVE StripLeft(_)
StripLeft(s) ==
    IF Len(s) > 0 /\ Head(s) = " " THEN StripLeft(Tail(s)) ELSE s

RECURSIVE StripRight(_)
StripRight(s) ==
    IF Len(s) > 0 /\ s[Len(s)] = " "
    THEN StripRight(SubSeq(s, 1, Len(s) - 1))
    ELSE s

RECURSIVE DigitsValue(_)
DigitsValue(s) ==
    IF Len(s) = 0 THEN 0
    ELSE 10 * DigitsValue(SubSeq(s, 1, Len(s) - 1)) + DigitValue[s[Len(s)]]

\* Python int(x).  For a str: surrounding blanks are stripped, one optional
\* sign, then at least one decimal digit; anything else is a ValueError.
\* For None: a TypeError.  Result: [err |-> "none" | "ValueError" |
\* "TypeError", v |-> the integer].
PyInt(v) ==
    CASE v.t = "num" -> [err |-> "none", v |-> v.n]
      [] v.t = "null" -> [err |-> "TypeError", v |-> 0]
      [] OTHER ->
          LET body == StripRight(StripLeft(v.s))
              signed == Len(body) > 0 /\ body[1] \in {"-", "+"}
              digits == IF signed THEN Tail(body) ELSE body
              ok == /\ Len(digits) > 0
                    /\ \A i \in 1..Len(digits) : digits[i] \in DOMAIN DigitValue
          IN  IF ~ok THEN [err |-> "ValueError", v |-> 0]
              ELSE [err |-> "none",
                    v |-> IF signed /\ body[1] = "-"
                          THEN 0 - DigitsValue(digits)
                          ELSE DigitsValue(digits)]

\* int(result['DELAY']) if result['DELAY'] else 0
DelayOf(result) ==
    IF Truthy(result.DELAY) THEN PyInt(result.DELAY)
    ELSE [err |-> "none", v |-> 0]

\* Faulty variant of IsDelayed: ">=" for ">".
IsDelayedOrOnTime(delay) == delay >= 0

\* if delay > 0:  (the test that counts a record as delayed)
IsDelayed(delay) == delay > 0

\* hour = int(departure_time[:2]) with the range test and the except clause
\* of plot_delayed_flights_by_hour: [skip |-> TRUE] when the record is
\* skipped (continue), else the hour.  Slicing None or an int is a
\* TypeError, an unparseable prefix a ValueError; both are caught.
HourOf(result) ==
    LET dt == result.DEPARTURE_TIME IN
    IF dt.t # "str" THEN [skip |-> TRUE, hour |-> 0]
    ELSE LET p == PyInt(Str(SubSeq(dt.s, 1, IF Len(dt.s) < 2 THEN Len(dt.s) ELSE 2)))
         IN  IF p.err # "none" THEN [skip |-> TRUE, hour |-> 0]
             ELSE IF p.v < 0 \/ p.v > 23 THEN [skip |-> TRUE, hour |-> 0]
             ELSE [skip |-> FALSE, hour |-> p.v]

\* ------------------------------------------------------------ the database
\* A row of QUERY_ALL_FLIGHTS: the flights table joined with airlines, with
\* the aliases FLIGHT_ID and DELAY.  AIRLINE is the joined airline name.
Flight(airline, origin, destination, time, delay, day) ==
    [FLIGHT_ID |-> 0, AIRLINE |-> airline, ORIGIN_AIRPORT |-> origin,
     DESTINATION_AIRPORT |-> destination, DEPARTURE_TIME |-> time,
     DELAY |-> delay, DAY |-> day, MONTH |-> 1, YEAR |-> 2015]

\* Rows a flights table of the general specification is drawn from.
FlightPool ==
    { Flight("AA", "JFK", "LAX", Str(<<"0", "9", "3", "0">>), Num(15), 1),
      Flight("DL", "LAX", "JFK", Str(<<"2", "3", "5", "9">>), Null, 1),
      Flight("AA", "JFK", "XYZ", Str(<<>>), Str(<<>>), 2),
      Flight("DL", "JFK", "LAX", Str(<<"2", "4", "0", "0">>), Num(-5), 2),
      Flight("AA", "LAX", "JFK", Null, Str(<<"1", "2">>), 1),
      Flight("AA", "JFK", "LAX", Str(<<"0", "0", "0", "5">>), Str(<<"a", "b", "c">>), 1),
      Flight("DL", "XYZ", "JFK", Str(<<"-", "1", "3", "0">>), Num(30), 2),
      Flight("DL", "LAX", "JFK", Str(<<"a", "b", "3", "0">>), Str(<<"n", "a">>), 2) }

\* Rows of the single-route specification: one route, delayed or on time.
RoutePool ==
    { Flight("AA", "JFK", "LAX", Str(<<"0", "9", "3", "0">>), Num(15), 1),
      Flight("AA", "JFK", "LAX", Str(<<"1", "0", "0", "0">>), Num(0), 1) }

\* Rows of the two-route specification: two resolved routes.
PairPool ==
    { Flight("AA", "JFK", "LAX", Str(<<"0", "9", "3", "0">>), Num(15), 1),
      Flight("AA", "JFK", "LAX", Str(<<"1", "0", "0", "0">>), Num(0), 1),
      Flight("DL", "LAX", "JFK", Str(<<"2", "3", "5", "9">>), Num(40), 1) }

Airport(code, latitude, longitude) ==
    [IATA_CODE |-> code, LATITUDE |-> latitude, LONGITUDE |-> longitude]

\* The airports tables the model starts from.  Coordinates are numbers,
\* NULL or text.
AirportTables ==
    { << Airport("JFK", Num(40), Num(-73)), Airport("LAX", Num(33), Num(-118)) >>,
      << Airport("JFK", Num(40), Num(-73)), Airport("LAX", Num(33), Num(-118)),
         Airport("XYZ", Null, Str(<<"x">>)) >>,
      << Airport("JFK", Num(40), Num(-73)), Airport("LAX", Num(33), Str(<<>>)),
         Airport("XYZ", Num(0), Num(10)) >> }

SeqsUpTo(S, n) == UNION { [1..k -> S] : k \in 0..n }

\* ------------------------------------------------------------------- state
VARIABLES
    flights,         \* the flights table (joined rows), fixed after Init
    airport_table,   \* the airports table, fixed after Init
    airports,        \* main.py global: the airport index (code -> coordinates)
    pc,              \* where the program is
    op,              \* the running operation: 0 = get_airports_data, 1..9 = FUNCTIONS key
    query,           \* _execute_query: the query being run
    params,          \* _execute_query: its bound parameters
    conn,            \* connections of the engine currently checked out
    results,         \* the list _execute_query returned to the operation
    exc,             \* the exception propagating out of the operation
    idx,             \* records of results the aggregation loop has processed
    airline_delays,  \* plot_delayed_flights_by_airline: airline -> tally
    hour_delays,     \* plot_delayed_flights_by_hour: hour -> tally
    route_delays,    \* plot_heatmap_routes / plot_delayed_flights_map: route -> tally
    percentages,     \* the percentages handed to the plot (key -> percentage)
    delay_groups,    \* plot_delayed_flights_map: group name -> routes drawn in it
    line_colors,     \* plot_delayed_flights_map: drawn route -> colour of its line
    printed,         \* print_results: the lines printed
    memo,            \* history: one earlier finished aggregation run
    typed            \* show_menu_and_get_input: the line input() returned last

vars == << flights, airport_table, airports, pc, op, query, params, conn,
           results, exc, idx, airline_delays, hour_delays, route_delays,
           percentages, delay_groups, line_colors, printed, memo, typed >>

\* FUNCTIONS keys (main.py): the lookups, the aggregations, Exit.
LookupOps == 1..4
AggregationOps == 5..8

\* A Python int too large for SQLite's 64-bit INTEGER (the user may type any
\* integer at "Enter flight ID").
TooBig == [t |-> "bignum", n |-> 0, s |-> <<>>]

NoParams == [id |-> Null, day |-> 0, month |-> 0, year |-> 0,
             airline |-> "", airport |-> ""]

NoMemo == [op |-> 0, input |-> <<>>, tally |-> <<>>]
NoGroups == [g \in {"Low Delay", "Medium Delay", "High Delay"} |-> {}]

\* ----------------------------------------------------------------- gateway
\* SQL "DEPARTURE_DELAY > 0" on a column of numeric affinity: NULL compares
\* unknown (row dropped); a stored text value sorts above every number.
SqlPositive(v) ==
    CASE v.t = "null" -> FALSE
      [] v.t = "num" -> v.n > 0
      [] OTHER -> TRUE

WithIds(table) == [i \in 1..Len(table) |-> [table[i] EXCEPT !.FLIGHT_ID = i]]

\* The rows the database yields for a query and its bound parameters.
Rows(q, p) ==
    LET all == WithIds(flights) IN
    CASE q = "QUERY_FLIGHT_BY_ID" ->
            SelectSeq(all, LAMBDA r : p.id.t = "num" /\ r.FLIGHT_ID = p.id.n)
      [] q = "QUERY_FLIGHTS_BY_DATE" ->
            SelectSeq(all, LAMBDA r : r.YEAR = p.year /\ r.MONTH = p.month /\ r.DAY = p.day)
      [] q = "QUERY_DELAYED_FLIGHTS_BY_AIRLINE" ->
            SelectSeq(all, LAMBDA r : r.AIRLINE = p.airline /\ SqlPositive(r.DELAY))
      [] q = "QUERY_DELAYED_FLIGHTS_BY_AIRPORT" ->
            SelectSeq(all, LAMBDA r : r.ORIGIN_AIRPORT = p.airport /\ SqlPositive(r.DELAY))
      [] q = "QUERY_ALL_FLIGHTS" -> all
      [] OTHER -> airport_table

Init ==
    /\ flights \in SeqsUpTo(FlightPool, MaxFlights)
    /\ airport_table \in AirportTables
    /\ airports = <<>>
    /\ pc = "start"
    /\ op = 0
    /\ query = ""
    /\ params = NoParams
    /\ conn = 0
    /\ results = <<>>
    /\ exc = "none"
    /\ idx = 0
    /\ airline_delays = <<>>
    /\ hour_delays = <<>>
    /\ route_delays = <<>>
    /\ percentages = <<>>
    /\ delay_groups = NoGroups
    /\ line_colors = <<>>
    /\ printed = <<>>
    /\ memo = NoMemo
    /\ typed = Null

\* The single-route start: a longer flights table on one route.
InitRoute ==
    /\ flights \in SeqsUpTo(RoutePool, MaxRouteFlights)
    /\ airport_table = << Airport("JFK", Num(40), Num(-73)),
                          Airport("LAX", Num(33), Num(-118)) >>
    /\ airports = <<>>
    /\ pc = "start"
    /\ op = 0
    /\ query = ""
    /\ params = NoParams
    /\ conn = 0
    /\ results = <<>>
    /\ exc = "none"
    /\ idx = 0
    /\ airline_delays = <<>>
    /\ hour_delays = <<>>
    /\ route_delays = <<>>
    /\ percentages = <<>>
    /\ delay_groups = NoGroups
    /\ line_colors = <<>>
    /\ printed = <<>>
    /\ memo = NoMemo
    /\ typed = Null

\* The two-route start.
InitPair ==
    /\ flights \in SeqsUpTo(PairPool, MaxPairFlights)
    /\ airport_table = << Airport("JFK", Num(40), Num(-73)),
                          Airport("LAX", Num(33), Num(-118)) >>
    /\ airports = <<>>
    /\ pc = "start"
    /\ op = 0
    /\ query = ""
    /\ params = NoParams
    /\ conn = 0
    /\ results = <<>>
    /\ exc = "none"
    /\ idx = 0
    /\ airline_delays = <<>>
    /\ hour_delays = <<>>
    /\ route_delays = <<>>
    /\ percentages = <<>>
    /\ delay_groups = NoGroups
    /\ line_colors = <<>>
    /\ printed = <<>>
    /\ memo = NoMemo
    /\ typed = Null

locals == << results, idx, airline_delays, hour_delays, route_delays,
             percentages, delay_groups, line_colors, printed >>
database == << flights, airport_table >>

\* The locals of an operation that has returned no longer exist.
ClearLocals ==
    /\ results' = <<>>
    /\ idx' = 0
    /\ airline_delays' = <<>>
    /\ hour_delays' = <<>>
    /\ route_delays' = <<>>
    /\ percentages' = <<>>
    /\ delay_groups' = NoGroups
    /\ line_colors' = <<>>
    /\ printed' = <<>>
    /\ typed' = Null

\* Faulty variant of CloseOnExit: the connection is closed on the success path only.
CloseOnSuccess(c, failed) == IF failed THEN c ELSE c - 1

\* The arguments of _execute_query are gone when it returns or raises.
\* "with self._engine.connect() as connection": the connection is given back
\* when the block is left, by return or by exception.
CloseOnExit(c, failed) == c - 1

\* A bound parameter SQLite cannot store makes the driver raise OverflowError
\* inside connection.execute; SQLAlchemy re-raises it as it is.
Unbindable(p) == p.id.t = "bignum"

\* _execute_query, first half: self._engine.connect().  A connection failure
\* is an SQLAlchemyError: printed, and [] is returned.
Connect ==
    /\ pc = "call"
    /\ \/ /\ conn' = conn + 1
          /\ pc' = "connected"
          /\ UNCHANGED << results, query, params >>
       \/ /\ conn' = conn
          /\ results' = <<>>
          /\ pc' = "returned"
          /\ query' = ""
          /\ params' = NoParams
    /\ UNCHANGED << database, airports, op, exc, idx, airline_delays,
                    hour_delays, route_delays, percentages, delay_groups, line_colors, printed, memo, typed >>

\* _execute_query, second half: execute, read the rows, leave the with block.
\* Only SQLAlchemyError is caught.
ExecuteQuery ==
    /\ pc = "connected"
    /\ \/ /\ ~Unbindable(params)
          /\ results' = Rows(query, params)
          /\ conn' = CloseOnExit(conn, FALSE)
          /\ pc' = "returned"
          /\ UNCHANGED exc
       \/ /\ results' = <<>>
          /\ conn' = CloseOnExit(conn, TRUE)
          /\ pc' = "returned"
          /\ UNCHANGED exc
       \/ /\ Unbindable(params)
          /\ conn' = CloseOnExit(conn, TRUE)
          /\ exc' = "OverflowError"
          /\ pc' = "raised"
          /\ UNCHANGED results
    /\ query' = ""
    /\ params' = NoParams
    /\ UNCHANGED << database, airports, op, idx, airline_delays,
                    hour_delays, route_delays, percentages, delay_groups, line_colors, printed, memo, typed >>

\* ------------------------------------------------------------ startup, menu
\* main(): airports = get_airports_data(data_manager), which first calls
\* data_manager.get_airports().
StartMain ==
    /\ pc = "start"
    /\ op' = 0
    /\ query' = "QUERY_AIRPORTS"
    /\ params' = NoParams
    /\ pc' = "call"
    /\ UNCHANGED << database, airports, conn, exc, locals, memo, typed >>

\* float(x): a number as it is; text parsed as a decimal number (the text of
\* the model has no '.', exponent, "inf" or "nan"), else ValueError.
PyFloat(v) == PyInt(v)

\* float(record[c]) if record[c] else None
CoordOf(v) ==
    IF Truthy(v)
    THEN LET f == PyFloat(v) IN [err |-> f.err, v |-> Num(f.v)]
    ELSE [err |-> "none", v |-> Null]

\* The rows get_airports_data keeps: both coordinates not None.
ValidAirport(record) ==
    /\ CoordOf(record.LATITUDE).v # Null
    /\ CoordOf(record.LONGITUDE).v # Null

\* get_airports_data: the frame indexed by IATA_CODE.
AirportIndex(airport_records) ==
    LET kept == { i \in 1..Len(airport_records) : ValidAirport(airport_records[i]) }
    IN  [ code \in { airport_records[i].IATA_CODE : i \in kept } |->
            LET i == CHOOSE j \in kept : airport_records[j].IATA_CODE = code
            IN  [latitude |-> CoordOf(airport_records[i].LATITUDE).v,
                 longitude |-> CoordOf(airport_records[i].LONGITUDE).v] ]

CoordError(airport_records) ==
    \E i \in 1..Len(airport_records) :
        \/ CoordOf(airport_records[i].LATITUDE).err # "none"
        \/ CoordOf(airport_records[i].LONGITUDE).err # "none"

\* get_airports_data after the gateway returned; main() then enters the loop.
BuildAirports ==
    /\ pc = "returned"
    /\ op = 0
    /\ ~CoordError(results)
    /\ airports' = AirportIndex(results)
    /\ pc' = "menu"
    /\ ClearLocals
    /\ UNCHANGED << database, op, query, params, conn, exc, memo >>

\* float() raising in get_airports_data: main() has no handler around it.
CrashOnStartup ==
    /\ pc = "returned"
    /\ op = 0
    /\ CoordError(results)
    /\ exc' = "ValueError"
    /\ pc' = "crashed"
    /\ ClearLocals
    /\ UNCHANGED << database, airports, op, query, params, conn, memo >>

\* What the user may type at the prompts of the lookups.
IdInputs == { Num(1), TooBig }
DayInputs == { 1, 2 }
AirlineInputs == { "AA" }
AirportInputs == { "JFK" }

\* The keys of FUNCTIONS.
FUNCTION_KEYS == 1..9

\* What the user may type at the menu.
MenuLines ==
    { Str(<<"1">>), Str(<<"2">>), Str(<<"3">>), Str(<<"4">>), Str(<<"5">>),
      Str(<<"6">>), Str(<<"7">>), Str(<<"8">>), Str(<<"9">>), Str(<<" ", "9">>),
      Str(<<"0">>), Str(<<"1", "0">>), Str(<<"-", "1">>), Str(<<"x">>), Str(<<>>) }

\* show_menu_and_get_input, one pass of its loop: choice = int(input()); the
\* key when choice is in FUNCTIONS, else 0 ("Try again...", also after the
\* ValueError of int()).
Chosen(line) ==
    LET choice == PyInt(line)
    IN  IF choice.err = "none" /\ choice.v \in FUNCTION_KEYS THEN choice.v ELSE 0

\* show_menu_and_get_input prints "Try again..." and reads again.
Reprompt ==
    /\ pc \in {"menu", "retry"}
    /\ \E line \in MenuLines : typed' = line /\ Chosen(line) = 0
    /\ pc' = "retry"
    /\ UNCHANGED << database, airports, op, query, params, conn, exc, locals, memo >>

\* show_menu_and_get_input returns FUNCTIONS[choice][0]; main() calls it.
\* The lookups read their (valid) input and call the gateway.
SelectFlightById ==
    /\ pc \in {"menu", "retry"}
    /\ \E line \in MenuLines : typed' = line /\ Chosen(line) \in {1}
    /\ \E id \in IdInputs : params' = [NoParams EXCEPT !.id = id]
    /\ op' = 1
    /\ query' = "QUERY_FLIGHT_BY_ID"
    /\ pc' = "call"
    /\ UNCHANGED << database, airports, conn, exc, locals, memo >>

SelectFlightsByDate ==
    /\ pc \in {"menu", "retry"}
    /\ \E line \in MenuLines : typed' = line /\ Chosen(line) \in {2}
    /\ \E d \in DayInputs :
          params' = [NoParams EXCEPT !.day = d, !.month = 1, !.year = 2015]
    /\ op' = 2
    /\ query' = "QUERY_FLIGHTS_BY_DATE"
    /\ pc' = "call"
    /\ UNCHANGED << database, airports, conn, exc, locals, memo >>

SelectDelayedByAirline ==
    /\ pc \in {"menu", "retry"}
    /\ \E line \in MenuLines : typed' = line /\ Chosen(line) \in {3}
    /\ \E a \in AirlineInputs : params' = [NoParams EXCEPT !.airline = a]
    /\ op' = 3
    /\ query' = "QUERY_DELAYED_FLIGHTS_BY_AIRLINE"
    /\ pc' = "call"
    /\ UNCHANGED << database, airports, conn, exc, locals, memo >>

SelectDelayedByAirport ==
    /\ pc \in {"menu", "retry"}
    /\ \E line \in MenuLines : typed' = line /\ Chosen(line) \in {4}
    /\ \E a \in AirportInputs : params' = [NoParams EXCEPT !.airport = a]
    /\ op' = 4
    /\ query' = "QUERY_DELAYED_FLIGHTS_BY_AIRPORT"
    /\ pc' = "call"
    /\ UNCHANGED << database, airports, conn, exc, locals, memo >>

\* Choices 5..8: each aggregation starts with data_manager.get_all_flights().
SelectAggregation ==
    /\ pc \in {"menu", "retry"}
    /\ \E line \in MenuLines : typed' = line /\ Chosen(line) \in AggregationOps
    /\ op' = Chosen(typed')
    /\ query' = "QUERY_ALL_FLIGHTS"
    /\ params' = NoParams
    /\ pc' = "call"
    /\ UNCHANGED << database, airports, conn, exc, locals, memo >>

\* Choice 9: quit(data_manager) raises SystemExit, which "except Exception"
\* does not catch.
SelectExit ==
    /\ pc \in {"menu", "retry"}
    /\ \E line \in MenuLines : typed' = line /\ Chosen(line) \in {9}
    /\ op' = 9
    /\ pc' = "exited"
    /\ UNCHANGED << database, airports, query, params, conn, exc, locals, memo >>

\* print_results: "Got n results." and one line per result; a ValueError
\* from int(result['DELAY']) prints an error and returns.
RECURSIVE ResultLines(_)
ResultLines(rs) ==
    IF Len(rs) = 0 THEN <<>>
    ELSE LET d == DelayOf(Head(rs)) IN
         IF d.err # "none"
         THEN << [text |-> "Error showing results", id |-> 0, delay |-> 0] >>
         ELSE << [text |-> "flight", id |-> Head(rs).FLIGHT_ID,
                  delay |-> IF d.v > 0 THEN d.v ELSE 0] >> \o ResultLines(Tail(rs))

PrintResults ==
    /\ pc = "returned"
    /\ op \in LookupOps
    /\ printed' = << [text |-> "Got", id |-> Len(results), delay |-> 0] >>
                  \o ResultLines(results)
    /\ pc' = "done"
    /\ UNCHANGED << database, airports, op, query, params, conn, results, exc, idx,
                    airline_delays, hour_delays, route_delays, percentages,
                    delay_groups, line_colors, memo, typed >>

\* ------------------------------------------------------------- aggregation
\* hour_delays = {hour: {'total': 0, 'delayed': 0} for hour in range(24)}
HOURS == 24
ZeroTally == [total |-> 0, delayed |-> 0]
FreshHourDelays == [hour \in 0..(HOURS - 1) |-> ZeroTally]

\* Faulty variant of EmptyDict: the dict outlives the call (a module-level dict).
StaleDict == IF memo.op = op THEN memo.tally ELSE <<>>

\* airline_delays = {} / route_delays = {}: a new dict on every call.
EmptyDict == <<>>

\* if key not in d: d[key] = {'total': 0, 'delayed': 0}
EnsureKey(d, key) == IF key \in DOMAIN d THEN d ELSE d @@ (key :> ZeroTally)

\* Faulty variant of Tally: total is counted in the else branch of the delay test.
TallySkewed(d, key, delay) ==
    IF delay > 0 THEN [d EXCEPT ![key].delayed = @ + 1]
    ELSE [d EXCEPT ![key].total = @ + 1]

\* d[key]['total'] += 1; if delay > 0: d[key]['delayed'] += 1
Tally(d, key, delay) ==
    LET counted == [d EXCEPT ![key].total = @ + 1]
    IN  IF IsDelayed(delay) THEN [counted EXCEPT ![key].delayed = @ + 1] ELSE counted

RouteOf(result) == << result.ORIGIN_AIRPORT, result.DESTINATION_AIRPORT >>

\* The aggregation has the gateway's list and creates its tally dict.
BeginAggregation ==
    /\ pc = "returned"
    /\ op \in AggregationOps
    /\ idx' = 0
    /\ airline_delays' = IF op = 5 THEN EmptyDict ELSE airline_delays
    /\ hour_delays' = IF op = 6 THEN FreshHourDelays ELSE hour_delays
    /\ route_delays' = IF op \in {7, 8} THEN EmptyDict ELSE route_delays
    /\ pc' = "loop"
    /\ UNCHANGED << database, airports, op, query, params, conn, results, exc,
                    percentages, delay_groups, line_colors, printed, memo, typed >>

\* The record the loop body is about to process.
Current == results[idx + 1]

\* int(result['DELAY']) raising ValueError: no aggregation catches it, so it
\* leaves the function and reaches main()'s handler.
DelayRaises ==
    /\ pc = "loop"
    /\ idx < Len(results)
    /\ DelayOf(Current).err # "none"
    /\ exc' = DelayOf(Current).err
    /\ pc' = "raised"
    /\ UNCHANGED << database, airports, op, query, params, conn, results, idx,
                    airline_delays, hour_delays, route_delays, percentages,
                    delay_groups, line_colors, printed, memo, typed >>

\* One pass of the loop of plot_delayed_flights_by_airline.
AirlineStep ==
    /\ pc = "loop"
    /\ op = 5
    /\ idx < Len(results)
    /\ DelayOf(Current).err = "none"
    /\ airline_delays' = Tally(EnsureKey(airline_delays, Current.AIRLINE),
                               Current.AIRLINE, DelayOf(Current).v)
    /\ idx' = idx + 1
    /\ UNCHANGED << database, airports, pc, op, query, params, conn, results, exc,
                    hour_delays, route_delays, percentages, delay_groups, line_colors, printed, memo, typed >>

\* One pass of the loop of plot_delayed_flights_by_hour.
HourStep ==
    /\ pc = "loop"
    /\ op = 6
    /\ idx < Len(results)
    /\ DelayOf(Current).err = "none"
    /\ hour_delays' = IF HourOf(Current).skip THEN hour_delays
                      ELSE Tally(hour_delays, HourOf(Current).hour, DelayOf(Current).v)
    /\ idx' = idx + 1
    /\ UNCHANGED << database, airports, pc, op, query, params, conn, results, exc,
                    airline_delays, route_delays, percentages, delay_groups, line_colors, printed, memo, typed >>

\* One pass of the loop of plot_heatmap_routes / plot_delayed_flights_map.
RouteStep ==
    /\ pc = "loop"
    /\ op \in {7, 8}
    /\ idx < Len(results)
    /\ DelayOf(Current).err = "none"
    /\ route_delays' = Tally(EnsureKey(route_delays, RouteOf(Current)),
                             RouteOf(Current), DelayOf(Current).v)
    /\ idx' = idx + 1
    /\ UNCHANGED << database, airports, pc, op, query, params, conn, results, exc,
                    airline_delays, hour_delays, percentages, delay_groups, line_colors, printed, memo, typed >>

\* ------------------------------------------------------------- percentages
\* A Python float that is a quotient of two integers, kept exactly as a
\* reduced fraction.  A float quotient d/t compares with the literals 0.2 and
\* 0.4 as the exact fraction does for any t below 2^50.
RECURSIVE GCD(_, _)
GCD(a, b) == IF b = 0 THEN a ELSE GCD(b, a % b)
Frac(n, d) == LET g == GCD(n, d) IN [num |-> n \div g, den |-> d \div g]
Zero == [num |-> 0, den |-> 1]
LessThan(x, y) == x.num * y.den < y.num * x.den

\* delayed / total * 100; dividing by zero raises ZeroDivisionError.
Percentage(t) ==
    IF t.total = 0 THEN [err |-> "ZeroDivisionError", v |-> Zero]
    ELSE [err |-> "none", v |-> Frac(t.delayed * 100, t.total)]

\* Faulty variant of HourPercentage: the "if total > 0 else 0" guard is missing.
HourPercentageUnguarded(t) == Percentage(t)

\* ... if hour_delays[hour]['total'] > 0 else 0
HourPercentage(t) ==
    IF t.total > 0 THEN Percentage(t) ELSE [err |-> "none", v |-> Zero]

\* The tally dict of the running aggregation.
TallyOf(o) ==
    CASE o = 5 -> airline_delays
      [] o = 6 -> hour_delays
      [] OTHER -> route_delays

PercentageOf(o, t) == IF o = 6 THEN HourPercentage(t) ELSE Percentage(t)

PercentagesFail(o) ==
    \E k \in DOMAIN TallyOf(o) : PercentageOf(o, TallyOf(o)[k]).err # "none"

\* The loop is over: the percentage list of the airline, hour or heatmap
\* plot is built and plotted; a ZeroDivisionError leaves the function.
Plot ==
    /\ pc = "loop"
    /\ op \in {5, 6, 7}
    /\ idx = Len(results)
    /\ IF PercentagesFail(op)
       THEN /\ exc' = "ZeroDivisionError"
            /\ pc' = "raised"
            /\ UNCHANGED percentages
       ELSE /\ percentages' =
                 [k \in DOMAIN TallyOf(op) |-> PercentageOf(op, TallyOf(op)[k]).v]
            /\ pc' = "done"
            /\ UNCHANGED exc
    /\ UNCHANGED << database, airports, op, query, params, conn, results, idx,
                    airline_delays, hour_delays, route_delays, delay_groups, line_colors, printed, memo, typed >>

\* --------------------------------------------------------------------- map
\* Faulty variant of Resolved: "or" for "and".
ResolvedEither(route) == route[1] \in DOMAIN airports \/ route[2] \in DOMAIN airports

\* origin in airports.index and destination in airports.index
Resolved(route) == route[1] \in DOMAIN airports /\ route[2] \in DOMAIN airports

\* The thresholds 0.2 and 0.4 of the if / elif / else that picks the group.
LowBelow == [num |-> 1, den |-> 5]
MediumBelow == [num |-> 2, den |-> 5]

\* Faulty variant of GroupOf: "<=" for "<" at both thresholds.
GroupOfInclusive(delay_percentage) ==
    IF ~LessThan(LowBelow, delay_percentage) THEN "Low Delay"
    ELSE IF ~LessThan(MediumBelow, delay_percentage) THEN "Medium Delay"
    ELSE "High Delay"

GroupOf(delay_percentage) ==
    IF LessThan(delay_percentage, LowBelow) THEN "Low Delay"
    ELSE IF LessThan(delay_percentage, MediumBelow) THEN "Medium Delay"
    ELSE "High Delay"

\* color = plt.cm.Reds(delay_percentage): the colormap has REDS_ENTRIES
\* colours and a float x in [0, 1] selects entry int(x * REDS_ENTRIES), the
\* last one for x = 1.  color_hex is the hex text of that entry; the colour is
\* kept as the entry's number (entry 0 is #fff5f0, 128 #fb694a, 255 #67000d).
REDS_ENTRIES == 256
ColorOf(delay_percentage) ==
    IF delay_percentage.num >= delay_percentage.den THEN REDS_ENTRIES - 1
    ELSE (delay_percentage.num * REDS_ENTRIES) \div delay_percentage.den

\* delay_percentage = counts['delayed'] / counts['total']
DelayPercentage(counts) == Frac(counts.delayed, counts.total)

\* The loop over route_delays.items() of plot_delayed_flights_map: a line is
\* added to its group for every route with both endpoints in the index.
DrawMap ==
    /\ pc = "loop"
    /\ op = 8
    /\ idx = Len(results)
    /\ delay_groups' =
          [g \in DOMAIN NoGroups |->
             { route \in DOMAIN route_delays :
                  /\ Resolved(route)
                  /\ GroupOf(DelayPercentage(route_delays[route])) = g }]
    /\ line_colors' =
          [route \in { r \in DOMAIN route_delays : Resolved(r) } |->
             ColorOf(DelayPercentage(route_delays[route]))]
    /\ pc' = "done"
    /\ UNCHANGED << database, airports, op, query, params, conn, results, exc, idx,
                    airline_delays, hour_delays, route_delays, percentages, printed, memo, typed >>

\* ------------------------------------------------------------ back to menu
\* The operation returns to main()'s loop, which shows the menu again
\* (choice_func is not read again before the next selection: op is reset).
Return ==
    /\ pc = "done"
    /\ pc' = "menu"
    /\ op' = 0
    /\ ClearLocals
    /\ UNCHANGED << database, airports, query, params, conn, exc, memo >>

\* The same step, keeping the finished aggregation run (its input and its
\* tallies) in the history variable memo, to compare later runs with.
ReturnRemembered ==
    /\ pc = "done"
    /\ op \in AggregationOps
    /\ memo = NoMemo
    /\ memo' = [op |-> op, input |-> results, tally |-> TallyOf(op)]
    /\ pc' = "menu"
    /\ op' = 0
    /\ ClearLocals
    /\ UNCHANGED << database, airports, query, params, conn, exc >>

\* Faulty variant of Caught: only the AttributeError handler is there.
CaughtAttributeError(e) == e = "AttributeError"

\* except AttributeError / except Exception: every exception class derived
\* from Exception is caught (SystemExit is not).
Caught(e) ==
    e \in {"AttributeError", "ValueError", "TypeError", "OverflowError",
           "ZeroDivisionError"}

\* main(): the handlers print the error and the loop goes on; an exception
\* that is not caught ends the program.
MainCatch ==
    /\ pc = "raised"
    /\ IF Caught(exc)
       THEN /\ exc' = "none"
            /\ pc' = "menu"
       ELSE /\ pc' = "crashed"
            /\ UNCHANGED exc
    /\ op' = 0
    /\ ClearLocals
    /\ UNCHANGED << database, airports, query, params, conn, memo >>

Next ==
    \/ StartMain
    \/ Connect
    \/ ExecuteQuery
    \/ BuildAirports
    \/ CrashOnStartup
    \/ Reprompt
    \/ SelectFlightById
    \/ SelectFlightsByDate
    \/ SelectDelayedByAirline
    \/ SelectDelayedByAirport
    \/ SelectAggregation
    \/ SelectExit
    \/ PrintResults
    \/ BeginAggregation
    \/ DelayRaises
    \/ AirlineStep
    \/ HourStep
    \/ RouteStep
    \/ Plot
    \/ DrawMap
    \/ Return
    \/ ReturnRemembered
    \/ MainCatch

\* The steps of the single-route start: its table has no malformed value, so
\* neither float() nor int() can raise.
NextRoute ==
    \/ StartMain
    \/ Connect
    \/ ExecuteQuery
    \/ BuildAirports
    \/ Reprompt
    \/ SelectFlightById
    \/ SelectFlightsByDate
    \/ SelectDelayedByAirline
    \/ SelectDelayedByAirport
    \/ SelectAggregation
    \/ SelectExit
    \/ PrintResults
    \/ BeginAggregation
    \/ AirlineStep
    \/ HourStep
    \/ RouteStep
    \/ Plot
    \/ DrawMap
    \/ Return
    \/ ReturnRemembered
    \/ MainCatch

Spec == Init /\ [][Next]_vars
SpecRoute == InitRoute /\ [][NextRoute]_vars
SpecPair == InitPair /\ [][NextRoute]_vars

\* ================================================================== claims
Tallies(d) == \A k \in DOMAIN d : d[k].delayed <= d[k].total

\* C1: in the by-airline, by-hour and by-route aggregations, every key's
\* tally has delayed <= total, after every processed record and at the end.
C1_DelayedAtMostTotal ==
    /\ Tallies(airline_delays)
    /\ Tallies(hour_delays)
    /\ Tallies(route_delays)

\* A finished by-airline run in which one airline has two flights, one delayed.
C1_Witness ==
    /\ pc = "done"
    /\ op = 5
    /\ \E a \in DOMAIN airline_delays :
          airline_delays[a].total = 2 /\ airline_delays[a].delayed = 1

\* C2: no step of _execute_query hands the caller an exception: from the
\* call and from the open connection the only ways on are the next step of
\* the query and the return of a list.
C2_GatewayNeverRaises ==
    [][(pc \in {"call", "connected"}) => (pc' \in {"connected", "returned"})]_vars

\* C3: a malformed field value never aborts an aggregation pass: no
\* aggregation is left by an exception.
C3_PassNeverAborts == ~(pc = "raised" /\ op \in AggregationOps)

\* C4: the by-hour aggregation always has exactly the keys 0..23, building
\* its percentages never divides by zero, and the output gives every hour a
\* percentage, which is 0 for an hour whose total is 0.
C4_HourOutput ==
    (op = 6 /\ pc \in {"loop", "done", "raised"}) =>
        /\ DOMAIN hour_delays = 0..23
        /\ exc # "ZeroDivisionError"
        /\ pc = "done" =>
              /\ DOMAIN percentages = 0..23
              /\ \A h \in 0..23 :
                    /\ percentages[h].den > 0
                    /\ hour_delays[h].total = 0 => percentages[h].num = 0
                    /\ hour_delays[h].total > 0 =>
                          percentages[h].num * hour_delays[h].total
                              = 100 * hour_delays[h].delayed * percentages[h].den

\* A finished by-hour run with an hour that has flights and hours that have none.
C4_Witness ==
    /\ pc = "done"
    /\ op = 6
    /\ \E h \in 0..23 : hour_delays[h].total > 0 /\ percentages[h].num > 0
    /\ \E h \in 0..23 : hour_delays[h].total = 0 /\ percentages[h].num = 0

InIndex(route) == route[1] \in DOMAIN airports /\ route[2] \in DOMAIN airports

Drawn == UNION { delay_groups[g] : g \in DOMAIN delay_groups }

\* C6: on the finished map a route of the tallies is drawn iff both its
\* endpoints are in the airport index; the finished heatmap has every route
\* of its input, resolved or not, with its percentage.
C6_DrawnIffResolved ==
    /\ (pc = "done" /\ op = 8) =>
          /\ Drawn \subseteq DOMAIN route_delays
          /\ \A route \in DOMAIN route_delays : route \in Drawn <=> InIndex(route)
          /\ \A i \in 1..Len(results) : RouteOf(results[i]) \in DOMAIN route_delays
    /\ (pc = "done" /\ op = 7) =>
          \A i \in 1..Len(results) :
              LET route == RouteOf(results[i]) IN
              /\ route \in DOMAIN percentages
              /\ percentages[route].num * route_delays[route].total
                    = 100 * route_delays[route].delayed * percentages[route].den

\* A finished map with one route drawn and one route, with an endpoint that
\* is not in the index, left out.
C6_Witness ==
    /\ pc = "done"
    /\ op = 8
    /\ \E route \in DOMAIN route_delays : route \in Drawn
    /\ \E route \in DOMAIN route_delays : route \notin Drawn /\ ~InIndex(route)

\* C7: a connection is held exactly while a gateway call is between its
\* connect and its exit: one open connection inside the call, none once the
\* call has returned or raised.
C7_ConnectionScoped ==
    /\ pc = "connected" => conn = 1
    /\ pc # "connected" => conn = 0

\* A call whose query failed inside the open connection has been left, and
\* nothing is held.
C7_Witness == pc = "raised" /\ exc = "OverflowError" /\ conn = 0

\* C8: a finished aggregation run that has the same operation and the same
\* input as an earlier finished run (memo) has the same tallies.
C8_SameInputSameTallies ==
    (pc = "done" /\ op \in AggregationOps /\ memo.op = op /\ memo.input = results)
        => TallyOf(op) = memo.tally

\* A second finished run of a remembered aggregation on a non-empty input.
C8_Witness ==
    /\ pc = "done"
    /\ op \in AggregationOps
    /\ memo.op = op
    /\ memo.input = results
    /\ Len(results) > 0

\* The count of key in tally dict d (0 for a key the dict lacks).
Count(d, key) == IF key \in DOMAIN d THEN d[key] ELSE ZeroTally

\* The record's delay as an integer is strictly positive.
PositiveDelay(r) ==
    \/ r.DELAY.t = "num" /\ r.DELAY.n > 0
    \/ r.DELAY.t = "str" /\ PyInt(r.DELAY).err = "none" /\ PyInt(r.DELAY).v > 0

\* The record's DELAY is None or ''.
AbsentDelay(r) == r.DELAY.t = "null" \/ (r.DELAY.t = "str" /\ Len(r.DELAY.s) = 0)

\* Processing record r moved the tally of key from d to e as claimed.
CountedOnce(d, e, key, r) ==
    /\ key \in DOMAIN e
    /\ e[key].total = Count(d, key).total + 1
    /\ e[key].delayed = Count(d, key).delayed + (IF PositiveDelay(r) THEN 1 ELSE 0)
    /\ AbsentDelay(r) => e[key].delayed = Count(d, key).delayed
    /\ \A k \in DOMAIN e \ {key} : k \in DOMAIN d /\ e[k] = d[k]

\* C9: every record an aggregation tallies adds exactly 1 to its group's
\* total; it adds 1 to the group's delayed count iff its integer delay is
\* strictly positive, so a record with DELAY empty or null leaves delayed
\* unchanged; no other group changes.
C9_CountRule ==
    [][(pc = "loop" /\ idx' = idx + 1) =>
          LET r == results[idx + 1] IN
          /\ op = 5 => CountedOnce(airline_delays, airline_delays', r.AIRLINE, r)
          /\ op \in {7, 8} =>
                CountedOnce(route_delays, route_delays',
                            << r.ORIGIN_AIRPORT, r.DESTINATION_AIRPORT >>, r)
          /\ (op = 6 /\ ~HourOf(r).skip) =>
                CountedOnce(hour_delays, hour_delays', HourOf(r).hour, r)
          /\ (op = 6 /\ HourOf(r).skip) => hour_delays' = hour_delays
      ]_vars

\* A by-airline run has just tallied a record whose DELAY is null or empty.
C9_Witness ==
    /\ pc = "loop"
    /\ op = 5
    /\ idx > 0
    /\ AbsentDelay(results[idx])
    /\ airline_delays[results[idx].AIRLINE].total > airline_delays[results[idx].AIRLINE].delayed

\* C10: in the by-hour loop a record whose DEPARTURE_TIME gives no hour in
\* 0..23 changes no bucket, and the loop goes on with the next record.
C10_BadHourSkipped ==
    [][(pc = "loop" /\ op = 6 /\ idx < Len(results) /\ HourOf(results[idx + 1]).skip) =>
          /\ hour_delays' = hour_delays
          /\ pc' = "loop"
          /\ idx' = idx + 1
      ]_vars

\* The groups a route's line was added to.
GroupsOf(route) == { g \in DOMAIN delay_groups : route \in delay_groups[g] }

\* C11: on the finished map every drawn route is in exactly one of the three
\* groups, and two drawn routes have the same line colour iff they are in
\* the same group.
C11_ColourByTier ==
    (pc = "done" /\ op = 8) =>
        /\ DOMAIN line_colors = Drawn
        /\ \A route \in Drawn : Cardinality(GroupsOf(route)) = 1
        /\ \A r1, r2 \in Drawn :
              line_colors[r1] = line_colors[r2] <=> GroupsOf(r1) = GroupsOf(r2)

\* The line is an integer literal naming an entry of the menu: its number,
\* else 0.
Listed(line) ==
    LET n == PyInt(line) IN IF n.err = "none" /\ n.v >= 1 /\ n.v <= 9 THEN n.v ELSE 0

\* C12: in main()'s loop every state has a next step; the menu reader
\* prompts again on a line that is no listed integer and otherwise hands
\* over exactly the listed operation; an operation that finished or raised
\* leads back to the menu; the program ends only by choice 9, and never
\* crashes once the loop is entered.
C12_LoopTolerates ==
    /\ [](pc \in {"menu", "retry", "call", "connected", "returned", "loop",
                  "done", "raised"} => ENABLED Next)
    /\ [][/\ pc \in {"menu", "retry"} =>
               /\ Listed(typed') = 0 => (pc' = "retry" /\ op' = op)
               /\ Listed(typed') \in 1..8 => (pc' = "call" /\ op' = Listed(typed'))
               /\ Listed(typed') = 9 => (pc' = "exited" /\ op' = 9)
          /\ pc \in {"done", "raised"} => pc' = "menu"
          /\ pc' = "exited" => (pc \in {"menu", "retry"} /\ Listed(typed') = 9)
          /\ pc' = "crashed" => (pc = "returned" /\ op = 0)
        ]_vars

\* An aggregation has raised ValueError, which is on its way to main()'s
\* handlers.
C12_Witness ==
    /\ pc = "raised"
    /\ exc = "ValueError"
    /\ op \in AggregationOps

\* The coordinate is there: neither NULL nor the empty string.
Present(v) == v.t # "null" /\ ~(v.t = "str" /\ Len(v.s) = 0)

\* C13: the index get_airports_data builds from the scanned airport records
\* has a record's code iff both its latitude and its longitude are present.
C13_IndexIffBothPresent ==
    [][(pc = "returned" /\ op = 0 /\ pc' = "menu") =>
          \A i \in 1..Len(results) :
              results[i].IATA_CODE \in DOMAIN airports'
                  <=> (Present(results[i].LATITUDE) /\ Present(results[i].LONGITUDE))
      ]_vars
====
